---- MODULE Spec2Model ----
(***************************************************************************)
(* Model of nonechucks/utils.py: the memoize decorator with its            *)
(* transparent_partial forwarding proxy, and the batch helpers batch_len,  *)
(* slice_batch and collate_batches.                                        *)
(*                                                                         *)
(* Python values are modelled by what the interpreter does with them:      *)
(* dictionary keys are compared by ==/hash (so True and 1 are one key, and *)
(* instances of a class that overrides __eq__/__hash__ are compared by     *)
(* value), attribute lookup consults the instance and its class before     *)
(* __getattr__, and subscripting follows the type of the container.        *)
(***************************************************************************)
EXTENDS Integers, Sequences, FiniteSets, TLC

VARIABLES
    classKind,    \* how the decorated class hashes/compares its instances
    memoize,      \* memoize.memoize, the flag of the decorator object
    cache,        \* memoize.cache, a dict: key -> stored result
    owner,        \* history: the instance whose call stored each cache entry
    trace,        \* history: per key, outcomes of the invocations made at line 70
    snap,         \* history: the cache as it was when the flag was last set to False
    offCalls,     \* history: calls made through memoize.__call__ since then
    invocations,  \* history: how many times the wrapped function was invoked
    last,         \* the most recent operation and what it gave its caller
    batch,        \* argument of the batch helper under study
    bres,         \* the most recent batch helper call and its result
    batches,      \* collate_batches: the list of batches to merge
    collate_fn,   \* collate_batches: the function the caller supplies
    torchCollate, \* which default_collate the installed torch provides
    cres,         \* results of the merges computed so far
    flagWrite,    \* history: the most recent write of the flag, and through whose proxy
    slots,        \* the instance dict of a proxy the caller holds on to
    attrs,        \* attributes that setattr has created on objects
    wres,         \* the most recent attribute write on the held proxy
    threads       \* per thread, how far its call of memoize.__call__ has got

vars == <<classKind, memoize, cache, owner, trace, snap, offCalls, invocations,
          last, batch, bres, batches, collate_fn, torchCollate, cres,
          flagWrite, slots, attrs, wres, threads>>

memoVars == <<classKind, memoize, cache, owner, trace, snap, offCalls,
              invocations, last, flagWrite>>
batchVars == <<batch, bres>>
collateVars == <<batches, collate_fn, torchCollate, cres>>
\* everything but the memoizer's state, and everything but the batch helpers'
proxyVars == <<slots, attrs, wres>>
raceVars == <<threads>>
nonMemoVars == <<batchVars, collateVars, proxyVars, raceVars>>
nonBatchVars == <<memoVars, collateVars, proxyVars, raceVars>>
nonCollateVars == <<memoVars, batchVars, proxyVars, raceVars>>

-----------------------------------------------------------------------------
(* Bounds *)

\* invocations of the wrapped function in one behaviour
MaxInvocations == 2

-----------------------------------------------------------------------------
(* The decorated class and the arguments its method is called with *)

Instances == {"o1", "o2"}
NoInstance == "None"

\* identity: the class keeps object.__eq__/__hash__;
\* value:    it defines __eq__ and __hash__ over a field;
\* nohash:   it defines __eq__ only, which sets __hash__ to None.
ClassKinds == {"identity", "value", "nohash"}

\* the field the "value" class compares: o1 and o2 hold the same value
InstField(i) == "v1"

\* positional arguments after the instance; "[]" is a list
PosArgs == {<<"1">>, <<"True">>, <<"[]">>}
\* **kw as the set of its (name, value) items
KwArgs == {{}, {<<"k", "1">>}, {<<"k", "[]">>}}

\* what one invocation of the wrapped function does: return r1, return r2, raise
Outcomes == {"r1", "r2", "raise"}
\* the outcome of a call that never enters the wrapped function
NotInvoked == "none"

\* hash(v) succeeds
Hashable(v) == v # "[]"
\* the representative of v's class under ==: True == 1 and hash(True) == hash(1)
EqRep(v) == IF v = "True" THEN "1" ELSE v

InstHashable(i) == classKind # "nohash"
InstKey(i) == IF classKind = "value" THEN InstField(i) ELSE i

ArgsHashable(args) == \A n \in 1..Len(args) : Hashable(args[n])
ArgsKey(args) == [n \in 1..Len(args) |-> EqRep(args[n])]

\* frozenset(kw.items()): hashes every (name, value) tuple
KwHashable(kw) == \A it \in kw : Hashable(it[2])
KwKey(kw) == {<<it[1], EqRep(it[2])>> : it \in kw}

\* key = (instance, args, frozenset(kw.items())), as the dict compares it
MakeKey(instance, args, kw) == <<InstKey(instance), ArgsKey(args), KwKey(kw)>>
KeyHashable(instance, args, kw) ==
    InstHashable(instance) /\ ArgsHashable(args) /\ KwHashable(kw)

InstKeys == Instances \cup {InstField(i) : i \in Instances}
Keys == InstKeys \X {ArgsKey(a) : a \in {b \in PosArgs : ArgsHashable(b)}}
                 \X {KwKey(k) : k \in {j \in KwArgs : KwHashable(j)}}
NoKey == <<"", <<>>, {}>>

-----------------------------------------------------------------------------
(* memoize.__get__ and transparent_partial.__call__ *)

\* __get__ without the instance test: the decorator object itself is returned
Mut_get_self(instance) ==
    IF instance = NoInstance
    THEN [kind |-> "memoize", args |-> <<>>]
    ELSE [kind |-> "transparent_partial", args |-> <<instance>>]

\* what attribute access on the class (instance = None) or on an instance yields
memoize__get__(instance) ==
    IF instance = NoInstance
    THEN [kind |-> "function", args |-> <<>>]
    ELSE [kind |-> "transparent_partial", args |-> <<instance>>]

\* the proxy appends its prebound arguments instead of prepending them
Mut_prebound_last(pre, args) == args \o pre

\* the positional arguments the wrapped callable receives from the proxy
transparent_partial__call__(pre, args) == pre \o args

-----------------------------------------------------------------------------
(* memoize.__call__ *)

\* the lookup always takes the KeyError branch
Mut_never_hit(key) == FALSE

\* self.cache[key] does not raise KeyError
CacheHit(key) == key \in DOMAIN cache

\* the miss branch returns the result without storing it
Mut_no_store(key, out) == cache

\* a store over an existing entry leaves a value that no invocation returned
Mut_store_torn(key, out) ==
    IF out = "raise" THEN cache
    ELSE IF key \in DOMAIN cache THEN (key :> "torn") @@ cache
    ELSE (key :> out) @@ cache

\* the miss branch stores whatever the call ended with, an error included
Mut_store_on_raise(key, out) == (key :> out) @@ cache

\* the cache after the miss branch has run with the function's outcome
StoreResult(key, out) == IF out = "raise" THEN cache ELSE (key :> out) @@ cache

\* the bypass branch stores what it computed
Mut_bypass_stores(key, out) == StoreResult(key, out)

\* the cache after a call made while self.memoize is false
BypassCache(key, out) == cache

CallRecord(op, via, i, args, kw, kind, val, hit, invoked) ==
    [op |-> op, via |-> via, inst |-> i, name |-> "",
     flag |-> memoize,
     hashable |-> KeyHashable(i, args, kw),
     key |-> IF KeyHashable(i, args, kw) THEN MakeKey(i, args, kw) ELSE NoKey,
     kind |-> kind, val |-> val, hit |-> hit, invoked |-> invoked]

\* self.func(instance, *args, **kw) with outcome out, reported to the caller
Returned(out) == IF out = "raise" THEN "raised" ELSE "value"
Value(out) == IF out = "raise" THEN "" ELSE out

\* the flag is never consulted
Mut_flag_ignored == FALSE

\* line 63: if not self.memoize
Bypass == ~memoize

\* the key leaves the keyword items out: key = (instance, args)
Mut_kw_not_hashed(i, args, kw) == ~(InstHashable(i) /\ ArgsHashable(args))

\* building the key (line 66) or hashing it for the lookup (line 68) raises TypeError
KeyRaises(i, args, kw) == ~KeyHashable(i, args, kw)

memoize__call__(op, i, args, kw, out) ==
    LET key == MakeKey(i, args, kw) IN
    IF Bypass
    THEN \* line 64: no key is built
         /\ out \in Outcomes
         /\ invocations < MaxInvocations
         /\ invocations' = invocations + 1
         /\ offCalls' = offCalls + 1
         /\ cache' = BypassCache(key, out)
         /\ last' = CallRecord(op, "memoize", i, args, kw, Returned(out), Value(out),
                               FALSE, TRUE)
         /\ UNCHANGED <<owner, trace>>
    ELSE IF KeyRaises(i, args, kw)
    THEN /\ out = NotInvoked
         /\ last' = CallRecord(op, "memoize", i, args, kw, "TypeError", "", FALSE, FALSE)
         /\ UNCHANGED <<cache, owner, trace, invocations, offCalls>>
    ELSE IF CacheHit(key)
    THEN \* line 68
         /\ out = NotInvoked
         /\ last' = CallRecord(op, "memoize", i, args, kw, "value", cache[key],
                               TRUE, FALSE)
         /\ UNCHANGED <<cache, owner, trace, invocations, offCalls>>
    ELSE \* line 69-70
         /\ out \in Outcomes
         /\ invocations < MaxInvocations
         /\ invocations' = invocations + 1
         /\ cache' = StoreResult(key, out)
         /\ owner' = IF out = "raise" THEN owner ELSE (key :> i) @@ owner
         /\ trace' = [trace EXCEPT ![key] = Append(@, out)]
         /\ last' = CallRecord(op, "memoize", i, args, kw, Returned(out), Value(out),
                               FALSE, TRUE)
         /\ UNCHANGED offCalls

\* the wrapped function called directly: self.func(instance, *args, **kw)
func__call__(op, i, args, kw, out) ==
    /\ out \in Outcomes
    /\ invocations < MaxInvocations
    /\ invocations' = invocations + 1
    /\ last' = CallRecord(op, "function", i, args, kw, Returned(out), Value(out),
                          FALSE, TRUE)
    /\ UNCHANGED <<cache, owner, trace, offCalls>>

\* call whatever __get__ returned for `access`, with positional arguments `full`
CallThrough(op, access, full, kw, out) ==
    LET target == memoize__get__(access)
        all == transparent_partial__call__(target.args, full)
    IN  IF target.kind = "function"
        THEN func__call__(op, Head(all), Tail(all), kw, out)
        ELSE memoize__call__(op, Head(all), Tail(all), kw, out)

\* obj.method(*args, **kw)
CallBound(i, args, kw, out) ==
    /\ CallThrough("call", i, args, kw, out)
    /\ UNCHANGED <<classKind, memoize, snap, flagWrite>>
    /\ UNCHANGED nonMemoVars

\* Cls.method(obj, *args, **kw)
CallUnbound(i, args, kw, out) ==
    /\ CallThrough("unbound", NoInstance, <<i>> \o args, kw, out)
    /\ UNCHANGED <<classKind, memoize, snap, flagWrite>>
    /\ UNCHANGED nonMemoVars

-----------------------------------------------------------------------------
(* The flag *)

OpRecord(op, via, name, kind, val) ==
    [op |-> op, via |-> via, inst |-> "", name |-> name, flag |-> memoize, hashable |-> TRUE,
     key |-> NoKey, kind |-> kind, val |-> val, hit |-> FALSE, invoked |-> FALSE]

\* the flag was written with `value` through the proxy bound to instance i
\* (NoInstance: not through an instance's proxy)
FlagWritten(i, value) == [inst |-> i, value |-> value]

\* the cache after obj.method.memoize = value (the write reaches the decorator)
CacheAfterSetFlag(value) == cache

SetMemoize(value) ==
    /\ memoize' = value
    /\ cache' = CacheAfterSetFlag(value)
    /\ snap' = IF value = FALSE /\ memoize THEN cache ELSE snap
    /\ offCalls' = IF value = FALSE /\ memoize THEN 0 ELSE offCalls
    /\ last' = OpRecord("setflag", "transparent_partial", "memoize", "value", IF value THEN "True" ELSE "False")
    /\ flagWrite' = FlagWritten(NoInstance, value)
    /\ UNCHANGED <<classKind, owner, trace, invocations>>
    /\ UNCHANGED nonMemoVars

-----------------------------------------------------------------------------
(* Attribute reads *)

AttrNames == {"__name__", "__doc__", "__func", "__args", "__kw",
              "func", "cache", "memoize"}

Found(val) == [kind |-> "value", val |-> val]
AttributeError == [kind |-> "AttributeError", val |-> ""]

\* the wrapped function object: def add_to(self, arg) with a docstring
function__getattribute__(name) ==
    CASE name = "__name__" -> Found("add_to")
      [] name = "__doc__"  -> Found("add_to docstring")
      [] OTHER             -> AttributeError

\* the decorator object: its instance dict (lines 53-55), then class memoize,
\* whose body defines a docstring; the class defines no __getattr__
memoize__getattribute__(name) ==
    CASE name = "func"    -> Found("<function add_to>")
      [] name = "cache"   -> Found("<cache>")
      [] name = "memoize" -> Found(IF memoize THEN "True" ELSE "False")
      [] name = "__doc__" -> Found("memoize docstring")
      [] OTHER            -> AttributeError

\* transparent_partial.__getattr__(item), reached when normal lookup fails;
\* self.__dict__['__func'] is the decorator object
transparent_partial__getattr__(item) ==
    IF item \in {"__func", "__args", "__kw"}
    THEN Found("<" \o item \o ">")
    ELSE memoize__getattribute__(item)

\* the bound proxy: its instance dict (lines 16-18), then class
\* transparent_partial, whose body has no docstring, then __getattr__
transparent_partial__getattribute__(name) ==
    CASE name \in {"__func", "__args", "__kw"} -> Found("<" \o name \o ">")
      [] name = "__doc__"                       -> Found("None")
      [] OTHER                                  -> transparent_partial__getattr__(name)

\* getattr(x, name) for x the decorator object or a bound proxy
GetAttr(via, name) ==
    /\ LET r == IF via = "memoize"
                THEN memoize__getattribute__(name)
                ELSE transparent_partial__getattribute__(name)
       IN  last' = OpRecord("getattr", via, name, r.kind, r.val)
    /\ UNCHANGED <<classKind, memoize, cache, owner, trace, snap, offCalls,
                   invocations, flagWrite>>
    /\ UNCHANGED nonMemoVars

NoBatch == [tag |-> "none", n |-> "", items |-> <<>>]

-----------------------------------------------------------------------------
(* Python values handled by the batch helpers *)

\* samples in a batch, and fields of a structured batch
MaxLen == 3
MaxFields == 2

V(tag, n, items) == [tag |-> tag, n |-> n, items |-> items]

PyInt(k) == V("int", ToString(k), <<>>)
Chr(c) == V("chr", c, <<>>)
\* a str is the sequence of its characters
Str(chars) == V("str", "", [j \in 1..Len(chars) |-> Chr(chars[j])])
Tensor(elems) == V("tensor", "", elems)
List(elems) == V("list", "", elems)
Tuple(elems) == V("tuple", "", elems)
\* a dict is its (key, value) items in insertion order
Item(key, value) == V("item", "", <<key, value>>)
Dict(entries) == V("dict", "", entries)

None == <<>>
Some(k) == <<k>>

IsList(v) == v.tag = "list"                          \* isinstance(v, list)
IsString(v) == v.tag = "str"                         \* isinstance(v, string_classes)
IsMapping(v) == v.tag = "dict"                       \* isinstance(v, collections.Mapping)
IsSequence(v) == v.tag \in {"list", "tuple", "str"}  \* isinstance(v, collections.Sequence)
IsTensor(v) == v.tag = "tensor"                      \* isinstance(v, torch.Tensor)

DictKeys(d) == [j \in 1..Len(d.items) |-> d.items[j].items[1]]
DictValue(d, j) == d.items[j].items[2]
HasKey(d, key) == \E j \in 1..Len(d.items) : d.items[j].items[1] = key
Lookup(d, key) == DictValue(d, CHOOSE j \in 1..Len(d.items) : d.items[j].items[1] = key)

Ok(val) == [kind |-> "ok", len |-> 0, val |-> val]
OkLen(k) == [kind |-> "ok", len |-> k, val |-> NoBatch]
Raise(exc) == [kind |-> exc, len |-> 0, val |-> NoBatch]

\* len(v)
PyLen(v) ==
    IF v.tag \in {"list", "tuple", "str", "tensor", "dict"}
    THEN OkLen(Len(v.items))
    ELSE Raise("TypeError")

\* v[0]
PyFirst(v) ==
    CASE v.tag \in {"list", "tuple", "str", "tensor"} ->
            IF v.items = <<>> THEN Raise("IndexError") ELSE Ok(v.items[1])
      [] v.tag = "dict" ->
            IF HasKey(v, PyInt(0)) THEN Ok(Lookup(v, PyInt(0))) ELSE Raise("KeyError")
      [] OTHER -> Raise("TypeError")

Min(a, b) == IF a < b THEN a ELSE b
Max(a, b) == IF a > b THEN a ELSE b

\* the index a slice bound denotes in a sequence of length n
SliceIndex(bound, n, default) ==
    IF bound = None THEN default
    ELSE IF bound[1] < 0 THEN Max(bound[1] + n, 0)
    ELSE Min(bound[1], n)

\* v[start:end]
PySlice(v, start, end) ==
    CASE v.tag \in {"list", "tuple", "str", "tensor"} ->
            LET n == Len(v.items)
                lo == SliceIndex(start, n, 0)
                hi == SliceIndex(end, n, n)
            IN  Ok(V(v.tag, v.n, SubSeq(v.items, lo + 1, hi)))
      [] OTHER -> Raise("TypeError")  \* a dict cannot hash a slice; an int has no items

\* the first exception among results, if any
FirstError(rs) ==
    rs[CHOOSE j \in 1..Len(rs) : rs[j].kind # "ok" /\ \A m \in 1..(j - 1) : rs[m].kind = "ok"]
AllOk(rs) == \A j \in 1..Len(rs) : rs[j].kind = "ok"

-----------------------------------------------------------------------------
(* batch_len and slice_batch *)

\* line 89: the test that selects the sequence branch of batch_len
LenTakesSequenceBranch(b) == IsList(b)

batch_len(b) ==
    IF LenTakesSequenceBranch(b)
    THEN IF PyFirst(b).kind # "ok" THEN PyFirst(b)
         ELSE IF IsString(PyFirst(b).val) THEN PyLen(b)
         ELSE PyLen(PyFirst(b).val)
    ELSE IF IsMapping(b)
    THEN IF DictKeys(b) = <<>> THEN Raise("IndexError")   \* list(batch.keys())[0]
         ELSE PyLen(DictValue(b, 1))
    ELSE PyLen(b)

\* line 106: the test that selects the mapping branch of slice_batch
SliceTakesMappingBranch(b) ==
    PyFirst(b).kind = "ok" /\ IsMapping(PyFirst(b).val)

\* {key: batch[key][start:end] for key in batch}
SliceEachKey(b, start, end) ==
    IF ~IsMapping(b) THEN Raise("TypeError")   \* the elements are not indices
    ELSE LET rs == [j \in 1..Len(b.items) |-> PySlice(DictValue(b, j), start, end)]
         IN  IF AllOk(rs)
             THEN Ok(Dict([j \in 1..Len(b.items) |->
                              Item(DictKeys(b)[j], rs[j].val)]))
             ELSE FirstError(rs)

slice_batch(b, start, end) ==
    IF IsList(b)
    THEN IF PyFirst(b).kind # "ok" THEN PyFirst(b)
         ELSE IF IsString(PyFirst(b).val) THEN PySlice(b, start, end)
         ELSE LET rs == [j \in 1..Len(b.items) |-> PySlice(b.items[j], start, end)]
              IN  IF AllOk(rs)
                  THEN Ok(List([j \in 1..Len(b.items) |-> rs[j].val]))
                  ELSE FirstError(rs)
    ELSE IF PyFirst(b).kind # "ok" THEN PyFirst(b)        \* batch[0] raises
    ELSE IF SliceTakesMappingBranch(b) THEN SliceEachKey(b, start, end)
    ELSE PySlice(b, start, end)

-----------------------------------------------------------------------------
(* Batches the helpers are applied to *)

Ramp(base, n) == [j \in 1..n |-> PyInt(base + j)]
Word(n) == Str([j \in 1..n |-> "a"])
Words(n) == [j \in 1..n |-> Word(j)]

\* a structured sample: n values along its leading axis
Sample(kind, base, n) ==
    IF kind = "tensor" THEN Tensor(Ramp(base, n)) ELSE List(Ramp(base, n))
Samples(kind, f, n) == [j \in 1..f |-> Sample(kind, 10 * j, n)]

FieldNames == <<Str(<<"x">>), Str(<<"y">>)>>
Fields(kind, order, n) ==
    [j \in 1..Len(order) |-> Item(order[j], Sample(kind, 10 * j, n))]
KeyOrders == {<<>>, <<FieldNames[1]>>, FieldNames, <<FieldNames[2], FieldNames[1]>>,
              <<PyInt(0), FieldNames[1]>>}

TensorBatches == {Tensor(Ramp(0, n)) : n \in 0..MaxLen}
TextBatches == {List(Words(n)) : n \in 0..MaxLen} \cup {Tuple(Words(n)) : n \in 0..MaxLen}
StructuredBatches ==
    {List(Samples(kind, f, n)) : kind \in {"tensor", "list"}, f \in 1..MaxFields,
                                    n \in 0..MaxLen}
    \cup {Tuple(Samples(kind, f, n)) : kind \in {"tensor", "list"},
                                       f \in 1..MaxFields, n \in 0..MaxLen}
MappingBatches ==
    {Dict(Fields(kind, order, n)) : kind \in {"tensor", "list"}, order \in KeyOrders,
                                    n \in 0..MaxLen}
    \* a mapping whose key 0 holds a nested mapping
    \cup {Dict(<<Item(PyInt(0), Dict(Fields("list", FieldNames, n)))>>) : n \in 1..MaxLen}

Batches == TensorBatches \cup TextBatches \cup StructuredBatches \cup MappingBatches

SliceBounds == {None} \cup {Some(k) : k \in (0 - MaxLen)..(MaxLen + 1)}

BatchResult(op, start, end, r) ==
    [op |-> op, start |-> start, end |-> end, kind |-> r.kind, len |-> r.len,
     val |-> r.val]

BatchLen ==
    /\ bres' = BatchResult("len", None, None, batch_len(batch))
    /\ UNCHANGED batch
    /\ UNCHANGED nonBatchVars

SliceBatch(start, end) ==
    /\ bres' = BatchResult("slice", start, end, slice_batch(batch, start, end))
    /\ UNCHANGED batch
    /\ UNCHANGED nonBatchVars

-----------------------------------------------------------------------------
(* torch.cat, chain and default_collate, as collate_batches uses them *)

\* batches in one call of collate_batches
MaxBatches == 3

RECURSIVE Shape(_)
\* the size of a tensor: its length along each axis
Shape(t) ==
    IF t.tag # "tensor" THEN <<>>
    ELSE IF t.items = <<>> THEN <<0>>
    ELSE <<Len(t.items)>> \o Shape(t.items[1])

RECURSIVE Flatten(_)
\* the concatenation of a sequence of sequences
Flatten(seqs) == IF seqs = <<>> THEN <<>> ELSE Head(seqs) \o Flatten(Tail(seqs))

\* torch.cat(ts, 0): the tensors must agree on every axis but the first
torch_cat(ts) ==
    IF \E j \in 1..Len(ts) : ~IsTensor(ts[j]) THEN Raise("TypeError")
    ELSE IF \E j \in 1..Len(ts) :
               /\ ts[j].items # <<>> /\ ts[1].items # <<>>
               /\ Tail(Shape(ts[j])) # Tail(Shape(ts[1]))
    THEN Raise("RuntimeError")
    ELSE Ok(Tensor(Flatten([j \in 1..Len(ts) |-> ts[j].items])))

\* torch.stack(ts, 0): the tensors must have one size; they become the rows
torch_stack(ts) ==
    IF \E j \in 1..Len(ts) : ~IsTensor(ts[j]) THEN Raise("TypeError")
    ELSE IF \E j \in 1..Len(ts) : Shape(ts[j]) # Shape(ts[1]) THEN Raise("RuntimeError")
    ELSE Ok(Tensor(ts))

\* what iterating over v yields
Iterate(v) ==
    CASE v.tag \in {"list", "tuple", "str", "tensor"} -> Ok(List(v.items))
      [] v.tag = "dict" -> Ok(List(DictKeys(v)))
      [] OTHER -> Raise("TypeError")

\* list(chain(*bs))
chain(bs) ==
    LET its == [j \in 1..Len(bs) |-> Iterate(bs[j])]
    IN  IF AllOk(its)
        THEN Ok(List(Flatten([j \in 1..Len(bs) |-> its[j].val.items])))
        ELSE FirstError(its)

\* [d[key] for d in bs]
Gather(bs, key) ==
    LET gs == [j \in 1..Len(bs) |->
                  IF ~IsMapping(bs[j]) THEN Raise("TypeError")
                  ELSE IF ~HasKey(bs[j], key) THEN Raise("KeyError")
                  ELSE Ok(Lookup(bs[j], key))]
    IN  IF AllOk(gs) THEN Ok(List([j \in 1..Len(bs) |-> gs[j].val])) ELSE FirstError(gs)

MinLen(vs) == CHOOSE n \in 0..(MaxLen + MaxBatches) :
                 /\ \A j \in 1..Len(vs) : n <= Len(vs[j].items)
                 /\ \E j \in 1..Len(vs) : n = Len(vs[j].items)

\* zip(*vs): the j-th group holds the j-th element of every sequence
Transposed(vs) == [j \in 1..MinLen(vs) |-> [p \in 1..Len(vs) |-> vs[p].items[j]]]

\* the default_collate of torch.utils.data, on the list vs of samples.
\* "zip" is the release that transposes sequences with zip and so truncates
\* to the shortest; "equal_size" is the release that first requires the
\* sequences to have one length.
RECURSIVE default_collate(_, _)
default_collate(vs, release) ==
    IF vs = <<>> THEN Raise("IndexError")
    ELSE LET elem == vs[1] IN
    CASE IsTensor(elem) -> torch_stack(vs)
      [] elem.tag = "int" ->
            IF \A j \in 1..Len(vs) : vs[j].tag = "int" THEN Ok(Tensor(vs))
            ELSE Raise("ValueError")
      [] IsString(elem) -> Ok(List(vs))
      [] IsMapping(elem) ->
            LET rs == [j \in 1..Len(elem.items) |->
                          IF Gather(vs, DictKeys(elem)[j]).kind # "ok"
                          THEN Gather(vs, DictKeys(elem)[j])
                          ELSE default_collate(Gather(vs, DictKeys(elem)[j]).val.items,
                                               release)]
            IN  IF AllOk(rs)
                THEN Ok(Dict([j \in 1..Len(elem.items) |->
                                 Item(DictKeys(elem)[j], rs[j].val)]))
                ELSE FirstError(rs)
      [] elem.tag \in {"list", "tuple"} ->
            IF \E j \in 1..Len(vs) : vs[j].tag \notin {"list", "tuple", "str", "tensor"}
            THEN Raise("TypeError")
            ELSE IF release = "equal_size"
                    /\ \E j \in 1..Len(vs) : Len(vs[j].items) # Len(elem.items)
            THEN Raise("RuntimeError")
            ELSE LET rs == [j \in 1..MinLen(vs) |->
                               default_collate(Transposed(vs)[j], release)]
                 IN  IF AllOk(rs)
                     THEN Ok(List([j \in 1..MinLen(vs) |-> rs[j].val]))
                     ELSE FirstError(rs)
      [] OTHER -> Raise("TypeError")

\* a function a caller may pass as collate_fn: it concatenates the values
concat_collate(vs) ==
    IF vs = <<>> THEN Raise("IndexError")
    ELSE IF IsTensor(vs[1]) THEN torch_cat(vs)
    ELSE chain(vs)

CollateFns == {"default_collate", "concat_collate"}
ApplyCollate(fn, vs, release) ==
    IF fn = "default_collate" THEN default_collate(vs, release) ELSE concat_collate(vs)

-----------------------------------------------------------------------------
(* collate_batches *)

\* line 82: the function applied to the values gathered under one key
MappingCollate(fn) == "default_collate"

collate_batches(bs, fn, release) ==
    IF bs = <<>> THEN Raise("IndexError")                      \* batches[0]
    ELSE IF IsTensor(bs[1]) THEN torch_cat(bs)
    ELSE IF IsSequence(bs[1]) THEN chain(bs)
    ELSE IF IsMapping(bs[1])
    THEN LET keys == DictKeys(bs[1])
             rs == [j \in 1..Len(keys) |->
                       IF Gather(bs, keys[j]).kind # "ok" THEN Gather(bs, keys[j])
                       ELSE ApplyCollate(MappingCollate(fn), Gather(bs, keys[j]).val.items,
                                         release)]
         IN  IF AllOk(rs)
             THEN Ok(Dict([j \in 1..Len(keys) |-> Item(keys[j], rs[j].val)]))
             ELSE FirstError(rs)
    ELSE Raise("TypeError")

\* collate_batches([collate_batches(xs), y]): an exception of the inner call
\* propagates
CollateLeft(bs, fn, release) ==
    LET inner == collate_batches(SubSeq(bs, 1, Len(bs) - 1), fn, release)
    IN  IF inner.kind # "ok" THEN inner
        ELSE collate_batches(<<inner.val, bs[Len(bs)]>>, fn, release)

\* collate_batches([x, collate_batches(ys)])
CollateRight(bs, fn, release) ==
    LET inner == collate_batches(Tail(bs), fn, release)
    IN  IF inner.kind # "ok" THEN inner
        ELSE collate_batches(<<bs[1], inner.val>>, fn, release)

-----------------------------------------------------------------------------
(* Lists of batches of one shape *)

BatchShapes ==
    [container : {"tensor"}, kind : {"tensor"}, fields : {1}, order : {<<>>}]
    \cup [container : {"list", "tuple"}, kind : {"str"}, fields : {1}, order : {<<>>}]
    \cup [container : {"list", "tuple"}, kind : {"tensor", "list"},
          fields : 1..MaxFields, order : {<<>>}]
    \cup [container : {"dict"}, kind : {"tensor", "list"}, fields : {1},
          order : {<<FieldNames[1]>>, FieldNames}]

\* the p-th batch of a list: n samples, with values no other batch holds
ShapedBatch(shape, p, n) ==
    CASE shape.container = "tensor" -> Tensor(Ramp(100 * p, n))
      [] shape.container = "dict" ->
            Dict([j \in 1..Len(shape.order) |->
                     Item(shape.order[j], Sample(shape.kind, 100 * p + 10 * j, n))])
      [] shape.kind = "str" ->
            V(shape.container, "", [j \in 1..n |-> Str(<<ToString(p), ToString(j)>>)])
      [] OTHER ->
            V(shape.container, "",
              [j \in 1..shape.fields |-> Sample(shape.kind, 100 * p + 10 * j, n)])

\* samples per batch in the lists that are merged
BatchSizes == {0, 1, 2}

\* the lists of up to MaxBatches batches of one shape
BatchLists(shape) ==
    UNION {{[p \in 1..m |-> ShapedBatch(shape, p, ns[p])] :
                ns \in [1..m -> BatchSizes]} : m \in 1..MaxBatches}

NoMerge == [kind |-> "none", len |-> 0, val |-> NoBatch]
NoMerges == [flat |-> NoMerge, left |-> NoMerge, right |-> NoMerge]

\* collate_batches(batches, collate_fn)
Collate ==
    /\ cres' = [cres EXCEPT !.flat = collate_batches(batches, collate_fn, torchCollate)]
    /\ UNCHANGED <<batches, collate_fn, torchCollate>>
    /\ UNCHANGED nonCollateVars

\* collate_batches([collate_batches(batches[:-1]), batches[-1]])
CollateNestedLeft ==
    /\ Len(batches) >= 2
    /\ cres' = [cres EXCEPT !.left = CollateLeft(batches, collate_fn, torchCollate)]
    /\ UNCHANGED <<batches, collate_fn, torchCollate>>
    /\ UNCHANGED nonCollateVars

\* collate_batches([batches[0], collate_batches(batches[1:])])
CollateNestedRight ==
    /\ Len(batches) >= 2
    /\ cres' = [cres EXCEPT !.right = CollateRight(batches, collate_fn, torchCollate)]
    /\ UNCHANGED <<batches, collate_fn, torchCollate>>
    /\ UNCHANGED nonCollateVars

-----------------------------------------------------------------------------
(* The decorator called directly, and attribute writes on a proxy *)

\* Cls.__dict__['method'](obj, *args, **kw): memoize.__call__ without a proxy
CallDirect(i, args, kw, out) ==
    /\ memoize__call__("direct", i, args, kw, out)
    /\ UNCHANGED <<classKind, memoize, snap, flagWrite>>
    /\ UNCHANGED nonMemoVars

\* attribute writes on the held proxy in one behaviour
MaxWrites == 3

\* objects with an instance dict: the decorator and some other object
Objects == {"decorator", "obj"}
\* values written: a bool (it has no instance dict) or the other object
AttrValues == {"False", "obj"}
WriteNames == {"__func", "__args", "__kw", "memoize", "note"}
Unset == "<unset>"
\* bool(value), as `if not self.memoize` reads it
Truthy(value) == value # "False"

\* the instance the held proxy was bound to
HeldInstance == "o1"

\* the instance dict of transparent_partial(self, instance), lines 16-18,
\* as __get__ builds it at line 60
BoundProxy(i) ==
    [k \in {"__func", "__args", "__kw"} |->
        CASE k = "__func" -> "decorator"
          [] k = "__args" -> "(" \o i \o ",)"
          [] k = "__kw"   -> "{}"]

\* the write lands in the proxy's own dict and nothing is forwarded
Mut_setattr_own_dict(dict, key, value) ==
    [dict |-> (key :> value) @@ dict, target |-> "None", key |-> key, value |-> value]

\* transparent_partial.__setattr__(key, value) on a proxy whose instance dict
\* is `dict`: the dict afterwards, and the setattr call of line 28
transparent_partial__setattr__(dict, key, value) ==
    LET after == IF key \in DOMAIN dict               \* line 26
                 THEN [dict EXCEPT ![key] = value]     \* line 27
                 ELSE dict
    IN  [dict |-> after, target |-> after["__func"], key |-> key, value |-> value]

\* the attributes setattr can create: the decorator's memoize attribute is not
\* among them, it exists since __init__ and is the flag
AttrSlots == (Objects \X WriteNames) \ {<<"decorator", "memoize">>}
NoAttrs == [s \in AttrSlots |-> Unset]

\* setattr(target, key, value): what it raises, and the attributes and the
\* flag afterwards
object__setattr__(target, key, value) ==
    IF target \notin Objects
    THEN [kind |-> "AttributeError", attrs |-> attrs, memoize |-> memoize]
    ELSE IF target = "decorator" /\ key = "memoize"
    THEN [kind |-> "ok", attrs |-> attrs, memoize |-> Truthy(value)]
    ELSE [kind |-> "ok", attrs |-> [attrs EXCEPT ![<<target, key>>] = value],
          memoize |-> memoize]

\* proxy.key = value, for a proxy with instance dict `dict` bound to instance i:
\* what the statement does to everything but the proxy
ProxyWrite(dict, i, key, value) ==
    LET w == transparent_partial__setattr__(dict, key, value)
        r == object__setattr__(w.target, w.key, w.value)
    IN  /\ attrs' = r.attrs
        /\ memoize' = r.memoize
        /\ snap' = IF memoize /\ ~r.memoize THEN cache ELSE snap
        /\ offCalls' = IF memoize /\ ~r.memoize THEN 0 ELSE offCalls
        /\ flagWrite' = IF key = "memoize" THEN FlagWritten(i, Truthy(value)) ELSE flagWrite
        /\ last' = OpRecord(IF key = "memoize" THEN "setflag" ELSE "setattr",
                            "transparent_partial", key,
                            IF r.kind = "ok" THEN "value" ELSE r.kind, value)
        /\ UNCHANGED <<classKind, cache, owner, trace, invocations>>
        /\ UNCHANGED <<batchVars, collateVars, raceVars>>

WriteRecord(n, key, value, target, kind) ==
    [n |-> n, key |-> key, value |-> value, target |-> target, kind |-> kind]
NoWrite == WriteRecord(0, "", "", "", "none")

\* p = obj.method, some time ago; now p.key = value
WriteAttr(key, value) ==
    LET w == transparent_partial__setattr__(slots, key, value)
        r == object__setattr__(w.target, w.key, w.value)
    IN  /\ wres.n < MaxWrites
        /\ ProxyWrite(slots, HeldInstance, key, value)
        /\ slots' = w.dict
        /\ wres' = WriteRecord(wres.n + 1, key, value, w.target, r.kind)

\* obj.method.memoize = value: the proxy is the one this access creates
WriteFlag(i, value) ==
    /\ ProxyWrite(BoundProxy(memoize__get__(i).args[1]), i, "memoize",
                  IF value THEN "True" ELSE "False")
    /\ UNCHANGED <<slots, wres>>

-----------------------------------------------------------------------------
(* memoize.__call__ run by several threads at once *)

\* threads that call the decorated method
NumThreads == 2
Threads == 1..NumThreads

\* every thread calls obj.method(1) on one of the instances
RaceArgs == <<"1">>
RaceKw == {}
ThreadCall(i) == [pc |-> "called", inst |-> i, kind |-> "none", val |-> ""]
ThreadKey(t) == MakeKey(threads[t].inst, RaceArgs, RaceKw)

\* lines 63-68: the flag is on, the key is built and looked up
ThreadLookup(t) ==
    /\ threads[t].pc = "called"
    /\ ~Bypass
    /\ ~KeyRaises(threads[t].inst, RaceArgs, RaceKw)
    /\ threads' = [threads EXCEPT ![t] =
                       IF CacheHit(ThreadKey(t))
                       THEN [@ EXCEPT !.pc = "done", !.kind = "value",
                                      !.val = cache[ThreadKey(t)]]
                       ELSE [@ EXCEPT !.pc = "missed"]]
    /\ UNCHANGED <<memoVars, batchVars, collateVars, proxyVars>>

\* line 70, right-hand side: self.func(instance, *args, **kw)
ThreadInvoke(t, out) ==
    /\ threads[t].pc = "missed"
    /\ invocations' = invocations + 1
    /\ trace' = [trace EXCEPT ![ThreadKey(t)] = Append(@, out)]
    /\ threads' = [threads EXCEPT ![t] =
                       IF out = "raise"
                       THEN [@ EXCEPT !.pc = "done", !.kind = "raised"]
                       ELSE [@ EXCEPT !.pc = "computed", !.val = out]]
    /\ UNCHANGED <<classKind, memoize, cache, owner, snap, offCalls, last, flagWrite>>
    /\ UNCHANGED <<batchVars, collateVars, proxyVars>>

\* line 70, the assignment self.cache[key] = ..., and the return of line 71
ThreadStore(t) ==
    /\ threads[t].pc = "computed"
    /\ cache' = StoreResult(ThreadKey(t), threads[t].val)
    /\ owner' = (ThreadKey(t) :> threads[t].inst) @@ owner
    /\ threads' = [threads EXCEPT ![t] = [@ EXCEPT !.pc = "done", !.kind = "value"]]
    /\ UNCHANGED <<classKind, memoize, trace, snap, offCalls, invocations, last, flagWrite>>
    /\ UNCHANGED <<batchVars, collateVars, proxyVars>>

-----------------------------------------------------------------------------
(* Specifications *)

EmptyCache == [k \in {} |-> "r1"]
NoResult == BatchResult("none", None, None, [kind |-> "none", len |-> 0, val |-> NoBatch])

MemoInit(kinds) ==
    /\ classKind \in kinds
    /\ memoize = TRUE
    /\ cache = EmptyCache
    /\ owner = EmptyCache
    /\ trace = [k \in Keys |-> <<>>]
    /\ snap = EmptyCache
    /\ offCalls = 0
    /\ invocations = 0
    /\ last = OpRecord("init", "", "", "none", "")
    /\ flagWrite = FlagWritten(NoInstance, TRUE)

\* no batch helper is in use
IdleBatch ==
    /\ batch = NoBatch
    /\ bres = NoResult

IdleCollate ==
    /\ batches = <<>>
    /\ collate_fn = "default_collate"
    /\ torchCollate = "zip"
    /\ cres = NoMerges

\* no proxy is held and no attribute has been written
IdleProxy ==
    /\ slots = BoundProxy(HeldInstance)
    /\ attrs = NoAttrs
    /\ wres = NoWrite

\* no thread is inside memoize.__call__
IdleRace == threads = <<>>

\* the decorator of a freshly defined class
Init ==
    /\ MemoInit(ClassKinds)
    /\ IdleBatch
    /\ IdleCollate
    /\ IdleProxy
    /\ IdleRace

Next ==
    \/ \E i \in Instances, a \in PosArgs, kw \in KwArgs,
          out \in Outcomes \cup {NotInvoked} : CallBound(i, a, kw, out)
    \/ \E i \in Instances, a \in PosArgs, kw \in KwArgs,
          out \in Outcomes \cup {NotInvoked} : CallUnbound(i, a, kw, out)
    \/ \E value \in BOOLEAN : SetMemoize(value)
    \/ \E via \in {"memoize", "transparent_partial"}, name \in AttrNames :
          GetAttr(via, name)

Spec == Init /\ [][Next]_vars

\* the batch helpers applied to one batch
BatchInit ==
    /\ MemoInit({"identity"})
    /\ batch \in Batches
    /\ bres = NoResult
    /\ IdleCollate
    /\ IdleProxy
    /\ IdleRace

BatchNext ==
    \/ BatchLen
    \/ \E start \in SliceBounds, end \in SliceBounds : SliceBatch(start, end)

BatchSpec == BatchInit /\ [][BatchNext]_vars

\* collate_batches applied to one list of batches
CollateInit ==
    /\ MemoInit({"identity"})
    /\ IdleBatch
    /\ \E shape \in BatchShapes : batches \in BatchLists(shape)
    /\ collate_fn \in CollateFns
    /\ torchCollate \in {"zip", "equal_size"}
    /\ cres = NoMerges
    /\ IdleProxy
    /\ IdleRace

CollateNext ==
    \/ Collate
    \/ CollateNestedLeft
    \/ CollateNestedRight

CollateSpec == CollateInit /\ [][CollateNext]_vars

\* the method called through the proxy and on the decorator directly, with
\* the flag written through the instances' proxies in between
ProxyPosArgs == {<<"1">>, <<"[]">>}
ProxyKwArgs == {{}, {<<"k", "1">>}}

ProxyInit ==
    /\ MemoInit({"identity"})
    /\ IdleBatch
    /\ IdleCollate
    /\ IdleProxy
    /\ IdleRace

ProxyNext ==
    \/ \E i \in Instances, a \in ProxyPosArgs, kw \in ProxyKwArgs,
          out \in Outcomes \cup {NotInvoked} : CallBound(i, a, kw, out)
    \/ \E i \in Instances, a \in ProxyPosArgs, kw \in ProxyKwArgs,
          out \in Outcomes \cup {NotInvoked} : CallDirect(i, a, kw, out)
    \/ \E i \in Instances, value \in BOOLEAN : WriteFlag(i, value)

ProxySpec == ProxyInit /\ [][ProxyNext]_vars

\* attribute writes on a proxy the caller holds on to
AttrInit ==
    /\ MemoInit({"identity"})
    /\ IdleBatch
    /\ IdleCollate
    /\ IdleProxy
    /\ IdleRace

AttrNext == \E key \in WriteNames, value \in AttrValues : WriteAttr(key, value)

AttrSpec == AttrInit /\ [][AttrNext]_vars

\* NumThreads threads make their first call at once
RaceInit ==
    /\ MemoInit({"identity", "value"})
    /\ IdleBatch
    /\ IdleCollate
    /\ IdleProxy
    /\ threads \in [Threads -> {ThreadCall(i) : i \in Instances}]

RaceNext ==
    \/ \E t \in Threads : ThreadLookup(t)
    \/ \E t \in Threads, out \in Outcomes : ThreadInvoke(t, out)
    \/ \E t \in Threads : ThreadStore(t)

RaceSpec == RaceInit /\ [][RaceNext]_vars

-----------------------------------------------------------------------------
(* Properties of the memoizing forwarder *)

\* the first invocation at line 70 that returned, for a key that has one
FirstReturn(t) ==
    t[CHOOSE n \in 1..Len(t) : t[n] # "raise" /\ \A m \in 1..(n - 1) : t[m] = "raise"]

\* C1 as stated: with the flag true, the wrapped function is invoked at most
\* once per key (instance, args, kwargs), whatever the sequence of calls.
C1_AtMostOncePerKey ==
    \A k \in Keys : Len(trace[k]) <= 1

\* C1 amended: with the flag true, per key at most one invocation returns, and
\* it is the last one made for that key; only invocations that raised (and so
\* stored nothing) are ever followed by another invocation for the same key.
C1_AtMostOneReturnPerKey ==
    \A k \in Keys : \A n \in 1..Len(trace[k]) :
        trace[k][n] # "raise" => n = Len(trace[k])

\* a second memoized call with the key of the only invocation made so far
C1_Witness ==
    /\ last.op = "call" /\ last.flag /\ last.hit
    /\ invocations = 1
    /\ trace[last.key] # <<>>

\* C2: a memoized call that is served from the cache is served an entry that
\* a call on the same instance stored; an entry stored for one instance is
\* never returned to a call on a different instance.
C2_NoCrossInstanceHit ==
    (last.op = "call" /\ last.hit) => owner[last.key] = last.inst

\* C3: an entry, once stored, stays in the cache with the first result that
\* was computed for its key, through every call and flag change; and a
\* memoized call that hits returns that stored value without an invocation.
C3_EntriesPersist ==
    [][ /\ \A k \in DOMAIN cache : k \in DOMAIN cache' /\ cache'[k] = cache[k]
        /\ \A k \in DOMAIN cache' : cache'[k] = FirstReturn(trace'[k])
        /\ (last'.op = "call" /\ last'.hit) =>
              /\ last'.key \in DOMAIN cache
              /\ last'.kind = "value"
              /\ last'.val = cache[last'.key]
              /\ invocations' = invocations ]_vars

\* a hit after the flag was switched off, a bypassing call was made, and the
\* flag was switched on again
C3_Witness ==
    /\ last.op = "call" /\ last.hit /\ memoize
    /\ offCalls > 0
    /\ invocations = MaxInvocations

\* C4: while the flag is false every call of the decorated method invokes the
\* wrapped function: the invocation counter goes up by one per call, also
\* when the key of the call is in the cache.
C4_DisabledAlwaysInvokes ==
    [][ (~memoize /\ last'.op = "call") =>
            /\ last'.invoked
            /\ ~last'.hit
            /\ invocations' = invocations + 1 ]_vars

\* a call made with the flag false whose key is in the cache
C4_Witness ==
    /\ last.op = "call" /\ ~last.flag /\ last.invoked
    /\ last.hashable /\ last.key \in DOMAIN cache

\* C5: setting the flag, and every call made while it is false, leave the
\* cache as it is: while the flag is false the cache is the cache of the
\* moment it was switched off, and so it is when the flag is true again.
C5_DisableKeepsCache ==
    [][ /\ (~memoize \/ memoize' # memoize) => cache' = cache
        /\ ~memoize' => cache' = snap' ]_vars

\* the flag is true again after calls were made with it false, and a key
\* cached before the flag was switched off hits
C5_Witness ==
    /\ memoize /\ offCalls > 0
    /\ last.op = "call" /\ last.hit
    /\ last.key \in DOMAIN snap
    /\ last.val = snap[last.key]

\* C6: the attribute read on the class is the wrapped function itself; a
\* call through it invokes the function, whatever the flag, and does not
\* read or write the cache.
C6_ClassAccessUnmemoized ==
    [][ last'.op = "unbound" =>
            /\ last'.via = "function"
            /\ last'.invoked /\ ~last'.hit
            /\ invocations' = invocations + 1
            /\ cache' = cache ]_vars

\* a call through the class with the flag true and the key in the cache
C6_Witness ==
    /\ last.op = "unbound" /\ last.flag /\ last.invoked
    /\ last.hashable /\ last.key \in DOMAIN cache

\* names that are instance fields of the decorator or of the proxy
InternalFields == {"__func", "__args", "__kw", "func", "cache", "memoize"}

\* C7: reading, on the decorator object or on a bound proxy, an attribute
\* that is none of their internal fields gives the wrapped function's value
\* of that attribute.
C7_ReadsForwardedToFunction ==
    (last.op = "getattr" /\ last.name \notin InternalFields) =>
        /\ last.kind = "value"
        /\ last.val = function__getattribute__(last.name).val

\* C8 as stated: a call of the memoized method with an unhashable instance,
\* positional argument or keyword argument fails with TypeError.
C8_UnhashableRaises ==
    (last.op = "call" /\ ~last.hashable) => last.kind = "TypeError"

\* C8 amended: such a call fails with TypeError, before the function is
\* invoked, when the flag is true; when the flag is false no key is built and
\* the function is invoked with the unhashable argument.
C8_UnhashableRaisesWhenEnabled ==
    (last.op = "call" /\ ~last.hashable) =>
        IF last.flag
        THEN last.kind = "TypeError" /\ ~last.invoked
        ELSE last.kind # "TypeError" /\ last.invoked

\* a call with an unhashable keyword value, made with the flag true, has failed
C8_Witness ==
    /\ last.op = "call" /\ ~last.hashable /\ last.flag
    /\ last.kind = "TypeError"
    /\ classKind = "identity"

-----------------------------------------------------------------------------
(* Properties of the batch helpers *)

\* a mapping batch with fields, all tensors or sequences of one common length
IsFieldMapping(b) ==
    /\ IsMapping(b)
    /\ b.items # <<>>
    /\ \A j \in 1..Len(b.items) :
          /\ IsTensor(DictValue(b, j)) \/ IsSequence(DictValue(b, j))
          /\ Len(DictValue(b, j).items) = Len(DictValue(b, 1).items)

\* C9: slicing a mapping batch whose fields all have length N to [a,b) gives
\* a mapping with the same keys, each value sliced to [a,b).
C9_MappingSliceKeepsKeys ==
    (bres.op = "slice" /\ IsFieldMapping(batch)) =>
        /\ bres.kind = "ok"
        /\ IsMapping(bres.val)
        /\ DictKeys(bres.val) = DictKeys(batch)
        /\ \A j \in 1..Len(batch.items) :
              DictValue(bres.val, j) = PySlice(DictValue(batch, j), bres.start, bres.end).val

\* the sample count the batch shapes define, for a batch that is not empty
SampleCount(b) ==
    IF IsSequence(b)
    THEN IF IsString(b.items[1]) THEN Len(b.items) ELSE Len(b.items[1].items)
    ELSE IF IsMapping(b) THEN Len(DictValue(b, 1).items)
    ELSE Len(b.items)

\* C10: the length of a batch is its sample count: for a sequence of text
\* scalars the length of the sequence, for a sequence of structured samples
\* the length of its first element, for a mapping the length of the value
\* under its first key, otherwise the length of the leading axis.
C10_LengthIsSampleCount ==
    (bres.op = "len" /\ (IsSequence(batch) \/ IsMapping(batch) => batch.items # <<>>)) =>
        /\ bres.kind = "ok"
        /\ bres.len = SampleCount(batch)

\* C11: slicing with both bounds omitted returns a value equal to the batch,
\* for a tensor, a sequence of text scalars, a sequence of structured
\* samples and a mapping.
C11_FullSliceIsIdentity ==
    (bres.op = "slice" /\ bres.start = None /\ bres.end = None) =>
        /\ bres.kind = "ok"
        /\ bres.val = batch

\* C18: the length of an empty sequence or of an empty mapping is not a
\* value: the call fails with IndexError when it probes the first element or
\* the first key.
C18_EmptyBatchRaises ==
    (bres.op = "len" /\ (IsSequence(batch) \/ IsMapping(batch)) /\ batch.items = <<>>) =>
        bres.kind = "IndexError"

-----------------------------------------------------------------------------
(* Properties of collate_batches *)

RECURSIVE SumOfLengths(_)
SumOfLengths(bs) ==
    IF bs = <<>> THEN 0 ELSE batch_len(Head(bs)).len + SumOfLengths(Tail(bs))

\* every batch has a length, and at least one sample
Measurable(bs) ==
    \A p \in 1..Len(bs) : batch_len(bs[p]).kind = "ok" /\ batch_len(bs[p]).len >= 1

\* C12: the merge of a non-empty list of batches of one shape is a batch
\* whose length, as batch_len measures it, is the sum of the lengths of the
\* batches.
C12_MergedLengthIsSum ==
    (cres.flat.kind # "none" /\ Measurable(batches)) =>
        /\ cres.flat.kind = "ok"
        /\ batch_len(cres.flat.val).kind = "ok"
        /\ batch_len(cres.flat.val).len = SumOfLengths(batches)

\* C13: for three batches a, b, c of one shape, merging a with b and the
\* result with c, merging a with the merge of b and c, and merging the three
\* at once give equal results.
C13_MergeAssociative ==
    (/\ Len(batches) = 3
     /\ cres.flat.kind # "none" /\ cres.left.kind # "none" /\ cres.right.kind # "none") =>
        /\ cres.flat.kind = "ok"
        /\ cres.left = cres.flat
        /\ cres.right = cres.flat

\* the values under key gathered across the batches, combined with fn
CombinedUnder(bs, key, fn, release) ==
    ApplyCollate(fn, Gather(bs, key).val.items, release)

\* C14: when mapping batches are merged, the value under each key of the
\* first batch is what the caller's collate_fn makes of the values gathered
\* under that key; the default collation is used when the caller passes it.
C14_CallerCollateFnUsed ==
    (cres.flat.kind # "none" /\ IsMapping(batches[1])) =>
        IF \A j \in 1..Len(batches[1].items) :
              CombinedUnder(batches, DictKeys(batches[1])[j], collate_fn, torchCollate).kind = "ok"
        THEN /\ cres.flat.kind = "ok"
             /\ DictKeys(cres.flat.val) = DictKeys(batches[1])
             /\ \A j \in 1..Len(batches[1].items) :
                   DictValue(cres.flat.val, j) =
                       CombinedUnder(batches, DictKeys(batches[1])[j], collate_fn,
                                     torchCollate).val
        ELSE cres.flat.kind # "ok"

-----------------------------------------------------------------------------
(* Properties of the proxy and of the decorator under concurrency *)

\* what the wrapped function did in the call that `rec` records
OutcomeOf(rec) ==
    IF ~rec.invoked THEN NotInvoked
    ELSE IF rec.kind = "raised" THEN "raise" ELSE rec.val

\* C15: obj.method(*args, **kw) is memoize.__call__(obj, *args, **kw): every
\* call through the proxy of an instance is, from the same state and with the
\* same outcome of the wrapped function, a direct call of the decorator with
\* that instance first, and the other way round: the same value or error for
\* the caller, the same key read or created, the same count of invocations.
\* (The instance and the outcome are those the step recorded.)
C15_ProxyCallIsDirectCall ==
    [][\A a \in ProxyPosArgs, kw \in ProxyKwArgs :
          /\ (last'.op = "call" /\ CallBound(last'.inst, a, kw, OutcomeOf(last'))) =>
                 memoize__call__("call", last'.inst, a, kw, OutcomeOf(last'))
          /\ (last'.op = "direct" /\ CallDirect(last'.inst, a, kw, OutcomeOf(last'))) =>
                 CallThrough("direct", last'.inst, a, kw, OutcomeOf(last'))]_vars

\* a call through o2's proxy has hit the entry that the one invocation so far
\* stored for o2
C15_Witness ==
    /\ last.op = "call"
    /\ last.hit
    /\ last.inst = "o2"
    /\ invocations = 1
    /\ offCalls = 0
    /\ flagWrite.inst = NoInstance
    /\ last.key \in DOMAIN cache
    /\ Len(trace[last.key]) = 1

\* the outcome of the latest invocation that line 70 made for key, if any
LastOutcome(key) ==
    IF trace[key] = <<>> THEN NotInvoked ELSE trace[key][Len(trace[key])]

\* C19: when the wrapped function raises on a cache miss, the caller gets the
\* error and the cache is as it was, with no entry for the key; and a
\* memoized call for a key whose latest invocation raised invokes the
\* function again
C19_RaisePropagatesWithoutEntry ==
    [][/\ (last'.op \in {"call", "direct"} /\ last'.flag /\ last'.invoked
              /\ OutcomeOf(last') = "raise") =>
           /\ last'.kind = "raised"
           /\ cache' = cache
           /\ last'.key \notin DOMAIN cache'
       /\ (last'.op \in {"call", "direct"} /\ last'.flag /\ last'.hashable
              /\ LastOutcome(last'.key) = "raise") =>
           /\ last'.invoked
           /\ ~last'.hit]_vars

\* the function raised on a miss, and the next memoized call for the key
\* invoked it again and stored its result
C19_Witness ==
    /\ last.op = "call"
    /\ last.flag
    /\ last.invoked
    /\ last.hashable
    /\ trace[last.key] = <<"raise", "r1">>
    /\ last.key \in DOMAIN cache

\* C20: the flag is one piece of state shared by all instances: once it was
\* written false through the proxy of some instance, every later call, on
\* that or any other instance, finds it off and bypasses the cache: it invokes
\* the function and reads no entry
C20_FlagSharedByAllInstances ==
    (last.op \in {"call", "direct"} /\ flagWrite.inst \in Instances /\ ~flagWrite.value) =>
        /\ ~last.flag
        /\ last.invoked
        /\ ~last.hit
        /\ last.kind \in {"value", "raised"}

\* the flag was switched off through o1's proxy, and a call on o2 then
\* bypassed the entry that o2 had cached
C20_Witness ==
    /\ last.op = "call"
    /\ last.inst = "o2"
    /\ flagWrite = FlagWritten("o1", FALSE)
    /\ last.invoked
    /\ MakeKey("o2", <<"1">>, {}) \in DOMAIN cache
    /\ snap = cache
    /\ offCalls = 1

\* the names of the proxy's own slots, lines 16-18
InternalSlots == {"__func", "__args", "__kw"}

\* C16: a write on a proxy of one of the proxy's own slot names changes that
\* slot and no attribute of any other object; a write of another name is
\* forwarded to the wrapped target and changes no slot of the proxy
C16_WritesAreScoped ==
    [][IF wres'.key \in InternalSlots
       THEN /\ slots' = [slots EXCEPT ![wres'.key] = wres'.value]
            /\ attrs' = attrs
            /\ memoize' = memoize
       ELSE /\ slots' = slots
            /\ wres'.target = slots["__func"]
            /\ wres'.kind = "ok" =>
                  IF wres'.target = "decorator" /\ wres'.key = "memoize"
                  THEN memoize' = Truthy(wres'.value)
                  ELSE attrs'[<<wres'.target, wres'.key>>] = wres'.value]_vars

\* every thread has returned from, or raised out of, its call
AllDone == threads # <<>> /\ \A t \in Threads : threads[t].pc = "done"
\* the keys the threads called with
CalledKeys == {ThreadKey(t) : t \in Threads}
\* the values the invocations made for key returned
ReturnedFor(key) == {trace[key][n] : n \in 1..Len(trace[key])} \ {"raise"}

\* C17: whatever the interleaving of concurrent first calls for a key, once
\* all of them have completed the cache holds exactly one entry for the key
\* and its value is the result of one of the invocations made for it
C17_OneEntryAfterRace ==
    AllDone =>
        \A key \in CalledKeys :
            /\ key \in DOMAIN cache
            /\ cache[key] \in ReturnedFor(key)

\* C17, with invocations that may raise: once all calls have completed the
\* cache holds entries for called keys only, a key has its entry exactly when
\* some invocation for it returned, the entry's value is a value one of those
\* invocations returned, and every thread that got a value got one of them
C17_OneEntryIfSomeReturned ==
    AllDone =>
        /\ DOMAIN cache \subseteq CalledKeys
        /\ \A key \in CalledKeys :
              /\ key \in DOMAIN cache <=> ReturnedFor(key) # {}
              /\ key \in DOMAIN cache => cache[key] \in ReturnedFor(key)
        /\ \A t \in Threads :
              threads[t].kind = "value" => threads[t].val \in ReturnedFor(ThreadKey(t))

\* both threads called with one key, both missed, the function was invoked
\* twice with different results, and the cache holds the second thread's
C17_Witness ==
    /\ AllDone
    /\ ThreadKey(1) = ThreadKey(2)
    /\ invocations = 2
    /\ Len(trace[ThreadKey(1)]) = 2
    /\ threads[1].kind = "value"
    /\ threads[2].kind = "value"
    /\ threads[1].val # threads[2].val
    /\ cache[ThreadKey(1)] = threads[2].val

====
